---- MODULE Spec2Model ----
(***************************************************************************)
(* A model of the CHIP-8 interpreter core of chip8-rs (src/src/chip8.rs,   *)
(* src/src/constant.rs): the machine state of struct Chip8, its            *)
(* constructor, the ROM loader, the opcode fetch, the dispatcher and the   *)
(* nine instruction routines of trait Instructions.                        *)
(*                                                                         *)
(* A Rust panic ends the run: status becomes "panicked", the fields keep   *)
(* the values they had when the panic was raised, and no operation is      *)
(* enabled afterwards.  Integer overflow is build dependent: a build with  *)
(* overflow checks (debug) panics, a build without (release) wraps; the    *)
(* build is chosen once, in Init.                                          *)
(***************************************************************************)
EXTENDS Integers, Sequences, FiniteSets, TLC

VARIABLES
    screen,             \* [[u8; SCREEN_WIDTH]; SCREEN_HEIGHT]
    memory,             \* [u8; CHIP8_MEMORY]
    data_register,      \* [u8; 16]
    address_register,   \* u16
    delay_timer,        \* u8
    sound_timer,        \* u8
    keyboard,           \* [bool; 16]
    keyboard_waiting,   \* bool
    keyboard_register,  \* usize
    stack,              \* [u16; 16]
    stack_pointer,      \* usize
    program_counter,    \* u16
    build,              \* "debug" (overflow checks on) or "release" (off)
    status,             \* "running" or "panicked"
    loads,              \* number of load_rom calls made so far
    last                \* the operation that produced this state, with the
                        \* program counter and stack depth it started from
                        \* (rom: the ROM given to load_rom, arg: its length)

m_vars == <<screen, memory, data_register, address_register, delay_timer,
            sound_timer, keyboard, keyboard_waiting, keyboard_register,
            stack, stack_pointer, program_counter>>

vars == <<screen, memory, data_register, address_register, delay_timer,
          sound_timer, keyboard, keyboard_waiting, keyboard_register,
          stack, stack_pointer, program_counter, build, status, loads, last>>

----------------------------------------------------------------------------
(* Program constants *)

SCREEN_WIDTH == 64

SCREEN_HEIGHT == 32

CHIP8_MEMORY == 4096

INSTRUCTION_LENGTH == 2

\* number of general registers, of keys and of stack entries
REGISTERS == 16

STACK_SIZE == 16

\* address the loader writes the first ROM byte to
ROM_BASE == 512

\* program counter after construction
RESET_PC == 512

U8_MAX == 255

U16_MAX == 65535

\* usize is as wide as a pointer of the target (16, 32 or 64 bits); the
\* narrowest is modelled.  Whatever the width, the wrapped value of 0 - 1
\* is far above every array length of the machine.
USIZE_MAX == 65535

\* constant.rs does not define FONT_SET, which chip8.rs imports: the 16
\* glyphs of 5 bytes each of the specification (section 3), with the
\* standard CHIP-8 glyph bytes.
FONT_SET ==
    << 240, 144, 144, 144, 240,    32,  96,  32,  32, 112,
       240,  16, 240, 128, 240,   240,  16, 240,  16, 240,
       144, 144, 240,  16,  16,   240, 128, 240,  16, 240,
       240, 128, 240, 144, 240,   240,  16,  32,  64,  64,
       240, 144, 240, 144, 240,   240, 144, 240,  16, 240,
       240, 144, 240, 144, 144,   224, 144, 224, 144, 224,
       240, 128, 128, 128, 240,   224, 144, 144, 144, 224,
       240, 128, 240, 128, 240,   240, 128, 240, 128, 128 >>

----------------------------------------------------------------------------
(* Bounds of the model *)

\* load_rom calls in one behaviour
MaxLoads == 1

----------------------------------------------------------------------------
(* Opcode fields *)

\* opcode & 0xF000, as the top nibble
Family(opcode) == opcode \div 4096

\* opcode & 0x0FFF
NNN(opcode) == opcode % 4096

\* (opcode & 0x0F00) >> 8
X(opcode) == (opcode \div 256) % 16

\* (opcode & 0x00F0) >> 4
Y(opcode) == (opcode \div 16) % 16

\* (opcode & 0x00FF) as u8
NN(opcode) == opcode % 256

overflow_checks == build = "debug"

----------------------------------------------------------------------------
(* Construction *)

ClearScreen == [y \in 0..(SCREEN_HEIGHT - 1) |-> [x \in 0..(SCREEN_WIDTH - 1) |-> 0]]

\* Chip8::new with the program counter left at 0
new_pc_zero ==
    /\ screen = ClearScreen
    /\ memory = [a \in 0..(CHIP8_MEMORY - 1) |->
                    IF a < Len(FONT_SET) THEN FONT_SET[a + 1] ELSE 0]
    /\ data_register = [r \in 0..(REGISTERS - 1) |-> 0]
    /\ program_counter = 0
    /\ delay_timer = 0
    /\ sound_timer = 0
    /\ keyboard = [k \in 0..(REGISTERS - 1) |-> FALSE]
    /\ keyboard_waiting = FALSE
    /\ keyboard_register = 0
    /\ address_register = 0
    /\ stack = [s \in 0..(STACK_SIZE - 1) |-> 0]
    /\ stack_pointer = 0

new ==
    /\ screen = ClearScreen
    /\ memory = [a \in 0..(CHIP8_MEMORY - 1) |->
                    IF a < Len(FONT_SET) THEN FONT_SET[a + 1] ELSE 0]
    /\ data_register = [r \in 0..(REGISTERS - 1) |-> 0]
    /\ program_counter = RESET_PC
    /\ delay_timer = 0
    /\ sound_timer = 0
    /\ keyboard = [k \in 0..(REGISTERS - 1) |-> FALSE]
    /\ keyboard_waiting = FALSE
    /\ keyboard_register = 0
    /\ address_register = 0
    /\ stack = [s \in 0..(STACK_SIZE - 1) |-> 0]
    /\ stack_pointer = 0

Init ==
    /\ new
    /\ build \in {"debug", "release"}
    /\ status = "running"
    /\ loads = 0
    /\ last = [op |-> "new", pc |-> RESET_PC, sp |-> 0, step |-> FALSE,
               arg |-> 0, rom |-> << >>]

----------------------------------------------------------------------------
(* Opcode fetch *)

\* both indexed bytes lie inside the memory array
fetch_in_bounds == program_counter + 1 < CHIP8_MEMORY

\* (memory[pc] as u16) << 8 | (memory[pc + 1] as u16)
get_opcode == memory[program_counter] * 256 + memory[program_counter + 1]

\* a panic that leaves every field as it was (a failed index, a failed
\* overflow check, the panic! of the dispatcher)
panic ==
    /\ status' = "panicked"
    /\ UNCHANGED m_vars

\* n successive `program_counter += INSTRUCTION_LENGTH` starting from base:
\* with overflow checks the first addition that leaves u16 panics, without
\* them the sum wraps
advance(base, n) ==
    LET room == (U16_MAX - base) \div INSTRUCTION_LENGTH
    IN  IF overflow_checks /\ room < n
        THEN /\ status' = "panicked"
             /\ program_counter' = base + room * INSTRUCTION_LENGTH
        ELSE /\ status' = "running"
             /\ program_counter' = (base + n * INSTRUCTION_LENGTH) % (U16_MAX + 1)

----------------------------------------------------------------------------
(* ROM loading *)

\* a loader that starts from a zeroed memory image
load_rom_wiping(rom_data) ==
    LET room    == CHIP8_MEMORY - ROM_BASE
        written == IF Len(rom_data) > room THEN room ELSE Len(rom_data)
    IN  /\ memory' = [a \in ROM_BASE..(ROM_BASE + written - 1) |->
                        rom_data[a - ROM_BASE + 1]]
                      @@ [a \in 0..(CHIP8_MEMORY - 1) |-> 0]
        /\ status' = IF Len(rom_data) > room THEN "panicked" ELSE "running"
        /\ UNCHANGED <<screen, data_register, address_register, delay_timer,
                       sound_timer, keyboard, keyboard_waiting,
                       keyboard_register, stack, stack_pointer,
                       program_counter>>

\* memory[0x200 + i] = byte for each byte in turn; the write at index
\* CHIP8_MEMORY panics, after the bytes before it have been written
load_rom(rom_data) ==
    LET room    == CHIP8_MEMORY - ROM_BASE
        written == IF Len(rom_data) > room THEN room ELSE Len(rom_data)
    IN  /\ memory' = [a \in ROM_BASE..(ROM_BASE + written - 1) |->
                        rom_data[a - ROM_BASE + 1]] @@ memory
        /\ status' = IF Len(rom_data) > room THEN "panicked" ELSE "running"
        /\ UNCHANGED <<screen, data_register, address_register, delay_timer,
                       sound_timer, keyboard, keyboard_waiting,
                       keyboard_register, stack, stack_pointer,
                       program_counter>>

----------------------------------------------------------------------------
(* Instruction routines (impl Instructions for Chip8) *)

\* 00E0 without the final program_counter += INSTRUCTION_LENGTH
cls_without_advance ==
    /\ screen' = ClearScreen
    /\ status' = "running"
    /\ UNCHANGED <<memory, data_register, address_register, delay_timer,
                   sound_timer, keyboard, keyboard_waiting, keyboard_register,
                   stack, stack_pointer, program_counter>>

\* 00E0 that also counts the delay timer down, wrapping below 0
cls_ticking ==
    /\ screen' = ClearScreen
    /\ advance(program_counter, 1)
    /\ delay_timer' = (delay_timer + U8_MAX) % (U8_MAX + 1)
    /\ UNCHANGED <<memory, data_register, address_register,
                   sound_timer, keyboard, keyboard_waiting, keyboard_register,
                   stack, stack_pointer>>

\* 00E0
cls ==
    /\ screen' = ClearScreen
    /\ advance(program_counter, 1)
    /\ UNCHANGED <<memory, data_register, address_register, delay_timer,
                   sound_timer, keyboard, keyboard_waiting, keyboard_register,
                   stack, stack_pointer>>

\* 00EE.  `stack_pointer -= 1` at 0 panics with overflow checks; without
\* them it wraps to usize::MAX and the stack index that follows panics.
ret ==
    /\ IF stack_pointer = 0
       THEN /\ stack_pointer' = IF overflow_checks THEN 0 ELSE USIZE_MAX
            /\ status' = "panicked"
            /\ UNCHANGED program_counter
       ELSE IF stack_pointer - 1 >= STACK_SIZE
       THEN /\ stack_pointer' = stack_pointer - 1
            /\ status' = "panicked"
            /\ UNCHANGED program_counter
       ELSE /\ stack_pointer' = stack_pointer - 1
            /\ advance(stack[stack_pointer - 1], 1)
    /\ UNCHANGED <<screen, memory, data_register, address_register,
                   delay_timer, sound_timer, keyboard, keyboard_waiting,
                   keyboard_register, stack>>

\* 1NNN followed by the program_counter += INSTRUCTION_LENGTH of the
\* other routines
jp_then_advance ==
    IF ~fetch_in_bounds
    THEN panic
    ELSE /\ advance(NNN(get_opcode), 1)
         /\ UNCHANGED <<screen, memory, data_register, address_register,
                        delay_timer, sound_timer, keyboard, keyboard_waiting,
                        keyboard_register, stack, stack_pointer>>

\* 1NNN
jp ==
    IF ~fetch_in_bounds
    THEN panic
    ELSE /\ program_counter' = NNN(get_opcode)
         /\ status' = "running"
         /\ UNCHANGED <<screen, memory, data_register, address_register,
                        delay_timer, sound_timer, keyboard, keyboard_waiting,
                        keyboard_register, stack, stack_pointer>>

\* 2NNN.  The return address program_counter + INSTRUCTION_LENGTH is
\* computed first, then stored at stack[stack_pointer]; the opcode is
\* fetched last, from the unchanged program counter.
call ==
    IF (overflow_checks /\ program_counter + INSTRUCTION_LENGTH > U16_MAX)
       \/ stack_pointer >= STACK_SIZE
    THEN panic
    ELSE /\ stack' = [stack EXCEPT ![stack_pointer] =
                        (program_counter + INSTRUCTION_LENGTH) % (U16_MAX + 1)]
         /\ stack_pointer' = stack_pointer + 1
         /\ IF fetch_in_bounds
            THEN /\ program_counter' = NNN(get_opcode)
                 /\ status' = "running"
            ELSE /\ status' = "panicked"
                 /\ UNCHANGED program_counter
         /\ UNCHANGED <<screen, memory, data_register, address_register,
                        delay_timer, sound_timer, keyboard, keyboard_waiting,
                        keyboard_register>>

\* a skip that also leaves the outcome of its comparison in VF
skip_if_setting_flag(cond) ==
    /\ advance(program_counter, IF cond THEN 2 ELSE 1)
    /\ data_register' = [data_register EXCEPT ![15] = IF cond THEN 1 ELSE 0]
    /\ UNCHANGED <<screen, memory, address_register,
                   delay_timer, sound_timer, keyboard, keyboard_waiting,
                   keyboard_register, stack, stack_pointer>>

\* the three skips read the memory array at the register index
skip_if(cond) ==
    /\ advance(program_counter, IF cond THEN 2 ELSE 1)
    /\ UNCHANGED <<screen, memory, data_register, address_register,
                   delay_timer, sound_timer, keyboard, keyboard_waiting,
                   keyboard_register, stack, stack_pointer>>

\* 3XNN
se_vx_byte ==
    IF ~fetch_in_bounds
    THEN panic
    ELSE skip_if(memory[X(get_opcode)] = NN(get_opcode))

\* 4XNN with the comparison of 3XNN
sne_vx_byte_equal ==
    IF ~fetch_in_bounds
    THEN panic
    ELSE skip_if(memory[X(get_opcode)] = NN(get_opcode))

\* 4XNN
sne_vx_byte ==
    IF ~fetch_in_bounds
    THEN panic
    ELSE skip_if(memory[X(get_opcode)] # NN(get_opcode))

\* 5XY0
se_vx_vy ==
    IF ~fetch_in_bounds
    THEN panic
    ELSE skip_if(memory[X(get_opcode)] = memory[Y(get_opcode)])

\* 6XNN: self.memory[x as usize] = nn
ld_vx_byte ==
    IF ~fetch_in_bounds
    THEN panic
    ELSE /\ memory' = [memory EXCEPT ![X(get_opcode)] = NN(get_opcode)]
         /\ advance(program_counter, 1)
         /\ UNCHANGED <<screen, data_register, address_register, delay_timer,
                        sound_timer, keyboard, keyboard_waiting,
                        keyboard_register, stack, stack_pointer>>

\* 7XNN: self.memory[x as usize] += nn, a u8 addition
add_vx_byte ==
    IF ~fetch_in_bounds
    THEN panic
    ELSE LET x   == X(get_opcode)
             sum == memory[x] + NN(get_opcode)
         IN  IF overflow_checks /\ sum > U8_MAX
             THEN panic
             ELSE /\ memory' = [memory EXCEPT ![x] = sum % (U8_MAX + 1)]
                  /\ advance(program_counter, 1)
                  /\ UNCHANGED <<screen, data_register, address_register,
                                 delay_timer, sound_timer, keyboard,
                                 keyboard_waiting, keyboard_register, stack,
                                 stack_pointer>>

----------------------------------------------------------------------------
(* Dispatcher *)

\* the routine exec_opcode selects for an opcode: "bad" is the panic! arm
\* of the inner match, "none" the `_ => {}` arm of the outer one
dispatch(opcode) ==
    IF Family(opcode) = 0
    THEN IF opcode = 224 THEN "cls"
         ELSE IF opcode = 238 THEN "ret"
         ELSE "bad"
    ELSE IF Family(opcode) = 1 THEN "jp"
    ELSE "none"

exec_opcode ==
    IF ~fetch_in_bounds
    THEN panic
    ELSE CASE dispatch(get_opcode) = "cls" -> cls
           [] dispatch(get_opcode) = "ret" -> ret
           [] dispatch(get_opcode) = "jp"  -> jp
           [] dispatch(get_opcode) = "bad" -> panic
           [] OTHER -> /\ status' = "running"
                       /\ UNCHANGED m_vars

----------------------------------------------------------------------------
(* ROM images the host loads *)

\* the bytes of a sequence of opcode words, big-endian
Bytes(words) ==
    [i \in 1..(2 * Len(words)) |->
        IF i % 2 = 1 THEN words[(i + 1) \div 2] \div 256
                     ELSE words[i \div 2] % 256]

\* 0x200: CALL 0x206; 0x202: CLS; 0x204: JP 0x204; 0x206: RET
CallRetProgram == << \H2206, \H00E0, \H1204, \H00EE >>

\* STACK_SIZE nested calls: block i, at 0x200 + 6i, is CALL block i+1; CLS;
\* RET.  The word after the last block is `tail`.
NestProgram(tail) ==
    [w \in 1..(3 * STACK_SIZE + 1) |->
        LET i == (w - 1) \div 3
            k == (w - 1) % 3
        IN  IF w = 3 * STACK_SIZE + 1 THEN tail
            ELSE IF k = 0 THEN \H2000 + ROM_BASE + 6 * (i + 1)
            ELSE IF k = 1 THEN \H00E0
            ELSE \H00EE]

\* loads, skips and additions on registers 0..3, then JP 0x200
RegisterProgram ==
    << \H6105, \H3105, \H00E0, \H4105, \H5120, \H62FF, \H7202, \H7103,
       \H3000, \H4000, \H00E0, \H5330, \H00E0, \H1200 >>

\* JP 0xFFF: the next fetch needs memory[0x1000]
JumpToLastByte == << \H1FFF >>

\* RET as the first instruction, on the empty stack
ReturnOnly == << \H00EE >>

\* one opcode of every family the dispatcher has no arm for, and two words
\* of family 0 that are neither 00E0 nor 00EE
OtherOpcodes ==
    { \H0000, \H0123, \H8124, \H9120, \HA123, \HB123, \HC1FF, \HD125,
      \HE19E, \HF10A }

\* a ROM that fills memory to its last byte: JP 0xFFE first, CLS last
FullRom ==
    [i \in 1..(CHIP8_MEMORY - ROM_BASE) |->
        IF i = 1 THEN 31 ELSE IF i = 2 THEN 254
        ELSE IF i = CHIP8_MEMORY - ROM_BASE THEN 224 ELSE 0]

\* one byte more than fits
OversizeRom == FullRom \o << 170 >>

Roms ==
    { Bytes(CallRetProgram), Bytes(NestProgram(\H00EE)),
      Bytes(NestProgram(\H2260)), Bytes(RegisterProgram),
      Bytes(JumpToLastByte), Bytes(ReturnOnly), FullRom, OversizeRom, << >> }
    \cup { Bytes(<< w >>) : w \in OtherOpcodes }

----------------------------------------------------------------------------
(* Operations *)

Record(op, step, rom_data) ==
    last' = [op |-> op, pc |-> program_counter, sp |-> stack_pointer,
             step |-> step, arg |-> Len(rom_data), rom |-> rom_data]

\* the host runs a routine of the trait on the instruction word the
\* routine is documented for
Decodes(family) == fetch_in_bounds /\ Family(get_opcode) = family

LoadRom ==
    /\ status = "running"
    /\ loads < MaxLoads
    /\ \E rom_data \in Roms :
          /\ load_rom(rom_data)
          /\ Record("load_rom", FALSE, rom_data)
    /\ loads' = loads + 1
    /\ UNCHANGED build

ExecOpcode ==
    /\ status = "running"
    /\ exec_opcode
    /\ Record(IF fetch_in_bounds THEN dispatch(get_opcode) ELSE "fetch", TRUE, << >>)
    /\ UNCHANGED <<build, loads>>

Cls ==
    /\ status = "running"
    /\ fetch_in_bounds /\ get_opcode = \H00E0
    /\ cls
    /\ Record("cls", FALSE, << >>)
    /\ UNCHANGED <<build, loads>>

Ret ==
    /\ status = "running"
    /\ fetch_in_bounds /\ get_opcode = \H00EE
    /\ ret
    /\ Record("ret", FALSE, << >>)
    /\ UNCHANGED <<build, loads>>

Jp ==
    /\ status = "running"
    /\ Decodes(1)
    /\ jp
    /\ Record("jp", FALSE, << >>)
    /\ UNCHANGED <<build, loads>>

Call ==
    /\ status = "running"
    /\ Decodes(2)
    /\ call
    /\ Record("call", FALSE, << >>)
    /\ UNCHANGED <<build, loads>>

SeVxByte ==
    /\ status = "running"
    /\ Decodes(3)
    /\ se_vx_byte
    /\ Record("se_vx_byte", FALSE, << >>)
    /\ UNCHANGED <<build, loads>>

SneVxByte ==
    /\ status = "running"
    /\ Decodes(4)
    /\ sne_vx_byte
    /\ Record("sne_vx_byte", FALSE, << >>)
    /\ UNCHANGED <<build, loads>>

SeVxVy ==
    /\ status = "running"
    /\ Decodes(5)
    /\ se_vx_vy
    /\ Record("se_vx_vy", FALSE, << >>)
    /\ UNCHANGED <<build, loads>>

LdVxByte ==
    /\ status = "running"
    /\ Decodes(6)
    /\ ld_vx_byte
    /\ Record("ld_vx_byte", FALSE, << >>)
    /\ UNCHANGED <<build, loads>>

AddVxByte ==
    /\ status = "running"
    /\ Decodes(7)
    /\ add_vx_byte
    /\ Record("add_vx_byte", FALSE, << >>)
    /\ UNCHANGED <<build, loads>>

Next ==
    \/ LoadRom
    \/ ExecOpcode
    \/ Cls
    \/ Ret
    \/ Jp
    \/ Call
    \/ SeVxByte
    \/ SneVxByte
    \/ SeVxVy
    \/ LdVxByte
    \/ AddVxByte

Spec == Init /\ [][Next]_vars

----------------------------------------------------------------------------
(* Claims.  In an action formula the unprimed variables are the state an   *)
(* operation starts from, the primed ones the state it leaves, and         *)
(* last'.op names the operation (last'.step: it ran through exec_opcode).  *)

Instructions ==
    { "cls", "ret", "jp", "call", "se_vx_byte", "sne_vx_byte", "se_vx_vy",
      "ld_vx_byte", "add_vx_byte" }

\* C1: CALL NNN from PC = p at stack depth d < 16, followed immediately by
\* RET, leaves PC = p + 2 and stack depth d.
C1_CallRetRoundTrip ==
    [][ ( /\ last.op = "call" /\ status = "running" /\ last.sp < STACK_SIZE
          /\ last'.op = "ret" )
        => ( /\ status' = "running"
             /\ program_counter' = last.pc + INSTRUCTION_LENGTH
             /\ stack_pointer' = last.sp ) ]_vars

\* C2: for every opcode word at the PC a step either executes an
\* instruction or reports InvalidOpcode with the machine state unchanged:
\* a word that is no instruction does not end the process, and no word is
\* accepted without an effect and without an error.
C2_DecodeTotal ==
    [][ (last'.step /\ fetch_in_bounds)
        => ( /\ dispatch(get_opcode) = "bad"
                   => (status' = "running" /\ UNCHANGED m_vars)
             /\ dispatch(get_opcode) # "none" ) ]_vars

\* C3: SE Vx,NN / SNE Vx,NN / SE Vx,Vy leave PC + 4 when the condition on
\* the general registers V[X] (and NN or V[Y]) holds, and PC + 2 otherwise.
C3_SkipOnRegisters ==
    [][ (last'.op \in {"se_vx_byte", "sne_vx_byte", "se_vx_vy"})
        => LET vx   == data_register[X(get_opcode)]
               vy   == data_register[Y(get_opcode)]
               nn   == NN(get_opcode)
               cond == CASE last'.op = "se_vx_byte"  -> vx = nn
                         [] last'.op = "sne_vx_byte" -> vx # nn
                         [] last'.op = "se_vx_vy"    -> vx = vy
           IN  /\ status' = "running"
               /\ program_counter' = program_counter + (IF cond THEN 4 ELSE 2) ]_vars

\* C4: LD Vx,NN sets V[X] to NN and leaves every byte of memory unchanged;
\* no instruction writes memory at an address equal to a register index.
C4_RegistersNotMemory ==
    [][ /\ last'.op = "ld_vx_byte"
            => ( /\ data_register'[X(get_opcode)] = NN(get_opcode)
                 /\ memory' = memory )
        /\ last'.op \in Instructions
            => \A r \in 0..(REGISTERS - 1) : memory'[r] = memory[r] ]_vars

\* C5: ADD Vx,NN completes with V[X] = (V[X] + NN) mod 256, VF unchanged
\* when X is not F, and PC advanced by 2, also when V[X] + NN >= 256.
C5_AddWraps ==
    [][ (last'.op = "add_vx_byte")
        => LET x == X(get_opcode)
           IN  /\ status' = "running"
               /\ data_register'[x] =
                      (data_register[x] + NN(get_opcode)) % (U8_MAX + 1)
               /\ x # 15 => data_register'[15] = data_register[15]
               /\ program_counter' = program_counter + INSTRUCTION_LENGTH ]_vars

\* C6: RET with an empty stack reports StackUnderflow: it does not panic
\* and leaves PC, stack, stack depth, registers, memory and framebuffer
\* unchanged.
C6_RetOnEmptyStack ==
    [][ (last'.op = "ret" /\ stack_pointer = 0)
        => (status' = "running" /\ UNCHANGED m_vars) ]_vars

\* C7: CALL with 16 return addresses on the stack reports StackOverflow: it
\* does not panic and leaves PC, stack and stack depth unchanged.
C7_CallOnFullStack ==
    [][ (last'.op = "call" /\ stack_pointer = STACK_SIZE)
        => ( /\ status' = "running"
             /\ UNCHANGED <<program_counter, stack, stack_pointer>> ) ]_vars

\* C8: a load of at most 4096 - 0x200 bytes succeeds; a longer one is
\* rejected with RomTooLarge, with no byte of memory and no other state
\* modified.
C8_LoadBoundsChecked ==
    [][ (last'.op = "load_rom")
        => ( /\ status' = "running"
             /\ last'.arg > CHIP8_MEMORY - ROM_BASE => UNCHANGED m_vars ) ]_vars

\* C9: a fetch with PC + 1 > 0xFFF yields OutOfBoundsFetch instead of an
\* out-of-range access or a panic; for every other PC the fetched word is
\* memory[PC] * 256 + memory[PC + 1].
C9_FetchBoundsChecked ==
    [][ last'.step
        => IF program_counter + 1 > CHIP8_MEMORY - 1
           THEN status' = "running" /\ UNCHANGED m_vars
           ELSE get_opcode = memory[program_counter] * 256
                             + memory[program_counter + 1] ]_vars

\* C10: clear-screen (00E0) clears every framebuffer pixel, advances the PC
\* by exactly 2, and leaves general registers, address register, stack,
\* stack depth, both timers, keyboard state and memory unchanged.
C10_ClsFrame ==
    [][ (last'.op = "cls")
        => ( /\ status' = "running"
             /\ \A y \in 0..(SCREEN_HEIGHT - 1) :
                    \A x \in 0..(SCREEN_WIDTH - 1) : screen'[y][x] = 0
             /\ program_counter' = program_counter + 2
             /\ UNCHANGED <<data_register, address_register, stack,
                            stack_pointer, delay_timer, sound_timer,
                            keyboard, keyboard_waiting, keyboard_register,
                            memory>> ) ]_vars

\* a clear-screen has run, through the dispatcher, on a loaded program
C10_Witness ==
    /\ last.op = "cls" /\ last.step
    /\ status = "running"
    /\ loads > 0
    /\ program_counter = last.pc + 2

\* C11: a step dispatches on the top nibble of the fetched opcode: on a word
\* of family 2NNN, 3XNN, 4XNN, 5XY0, 6XNN or 7XNN it has exactly the effect
\* of call, se_vx_byte, sne_vx_byte, se_vx_vy, ld_vx_byte and add_vx_byte
\* (as 00E0, 00EE and 1NNN have the effect of cls, ret and jp), so it never
\* leaves the machine unchanged with the PC on the same instruction.
C11_StepDispatchesFamilies ==
    [][ (last'.step /\ fetch_in_bounds)
        => CASE get_opcode = 224        -> cls
             [] get_opcode = 238        -> ret
             [] Family(get_opcode) = 1  -> jp
             [] Family(get_opcode) = 2  -> call
             [] Family(get_opcode) = 3  -> se_vx_byte
             [] Family(get_opcode) = 4  -> sne_vx_byte
             [] Family(get_opcode) = 5  -> se_vx_vy
             [] Family(get_opcode) = 6  -> ld_vx_byte
             [] Family(get_opcode) = 7  -> add_vx_byte
             [] OTHER                   -> TRUE ]_vars

\* a step on this word is the blocking wait for a key into V[X] (FX0A)
IsKeyWait(opcode) == Family(opcode) = 15 /\ NN(opcode) = 10

NoKeyPressed == \A k \in 0..(REGISTERS - 1) : ~keyboard[k]

C13_ResetState ==
    (last.op = "new")
    => ( /\ Len(FONT_SET) = 16 * 5
         /\ \A a \in 0..(CHIP8_MEMORY - 1) :
                memory[a] = IF a < 16 * 5 THEN FONT_SET[a + 1] ELSE 0
         /\ \A r \in 0..15 : data_register[r] = 0
         /\ address_register = 0
         /\ program_counter = 512
         /\ stack_pointer = 0
         /\ delay_timer = 0 /\ sound_timer = 0
         /\ \A k \in 0..15 : keyboard[k] = FALSE
         /\ keyboard_waiting = FALSE
         /\ \A y \in 0..(SCREEN_HEIGHT - 1) :
                \A x \in 0..(SCREEN_WIDTH - 1) : screen[y][x] = 0 )

\* the freshly created machine, with the last glyph byte at address 79
C13_Witness ==
    /\ last.op = "new"
    /\ status = "running"
    /\ memory[79] = FONT_SET[80]
    /\ memory[80] = 0

\* C14: timers are decoupled from instruction execution: no step and no
\* instruction routine (cls, ret, jp, call, the skips, load-immediate,
\* add-immediate) changes the delay timer or the sound timer.
C14_TimersUntouched ==
    [][ (last'.step \/ last'.op \in Instructions)
        => UNCHANGED <<delay_timer, sound_timer>> ]_vars

\* nested calls have been run and unwound again, and a step has just
\* executed the last return: the timers still hold their reset value
C14_Witness ==
    /\ last.op = "ret" /\ last.step
    /\ last.sp = 1
    /\ status = "running"
    /\ stack[STACK_SIZE - 1] # 0
    /\ delay_timer = 0 /\ sound_timer = 0

\* C15: unconditional jump (1NNN) sets the PC to exactly NNN, the low 12
\* bits of the big-endian opcode word at the old PC, with no additional +2,
\* and changes nothing else.
C15_JpFrame ==
    [][ (last'.op = "jp")
        => ( /\ status' = "running"
             /\ program_counter' =
                    (memory[program_counter] * 256
                     + memory[program_counter + 1]) % 4096
             /\ UNCHANGED <<stack, stack_pointer, data_register,
                            address_register, memory, screen, delay_timer,
                            sound_timer, keyboard, keyboard_waiting,
                            keyboard_register>> ) ]_vars

\* JP 0xFFF has run at 0x200: the PC is the odd address 0xFFF
C15_Witness ==
    /\ last.op = "jp"
    /\ last.pc = 512
    /\ status = "running"
    /\ program_counter = 4095

C17_StackDepthInRange ==
    stack_pointer >= 0 /\ stack_pointer <= 16

\* C18: k nested CALLs from depth 0 (1 <= k <= 16) followed by k RETs pop
\* the return addresses in last-in-first-out order, each RET resuming at
\* the address that was pushed for it, and return the stack depth to 0:
\* every CALL below depth 16 pushes the address after it on top, every RET
\* resumes at the top entry and removes it.
C18_NestedCallsUnwind ==
    [][ /\ (last'.op = "call" /\ stack_pointer < STACK_SIZE)
            => ( /\ stack'[stack_pointer] = program_counter + INSTRUCTION_LENGTH
                 /\ stack_pointer' = stack_pointer + 1 )
        /\ (last'.op = "ret" /\ stack_pointer > 0)
            => ( /\ status' = "running"
                 /\ program_counter' = stack[stack_pointer - 1]
                 /\ stack_pointer' = stack_pointer - 1 ) ]_vars

Skips == {"se_vx_byte", "sne_vx_byte", "se_vx_vy"}

\* C19: the three conditional-skip routines (3XNN, 4XNN, 5XY0) modify only
\* the PC: general registers, address register, memory, stack, stack depth,
\* framebuffer, timers and keyboard state are identical before and after.
C19_SkipFrame ==
    [][ (last'.op \in Skips)
        => ( /\ status' = "running"
             /\ UNCHANGED <<data_register, address_register, memory, stack,
                            stack_pointer, screen, delay_timer, sound_timer,
                            keyboard, keyboard_waiting, keyboard_register>> ) ]_vars

\* a skip has been taken: the PC is 4 past the skip instruction
C19_Witness ==
    /\ last.op \in Skips
    /\ status = "running"
    /\ program_counter = last.pc + 4

\* the routine, run from the current state, leaves the PC n bytes further
SeAdvancesBy(n) ==
    ENABLED (se_vx_byte /\ status' = "running"
             /\ program_counter' = program_counter + n)

SneAdvancesBy(n) ==
    ENABLED (sne_vx_byte /\ status' = "running"
             /\ program_counter' = program_counter + n)

\* C20: for any machine state and any X and NN, SE Vx,NN and SNE Vx,NN run
\* from that same state never both skip and never both fall through:
\* exactly one of them advances the PC by 4 and the other by 2.  (Both
\* routines take X and NN from the word at the PC, whatever its family.)
C20_SeSneComplementary ==
    (status = "running" /\ fetch_in_bounds)
    => \/ ( /\ SeAdvancesBy(4) /\ ~SeAdvancesBy(2)
            /\ SneAdvancesBy(2) /\ ~SneAdvancesBy(4) )
       \/ ( /\ SeAdvancesBy(2) /\ ~SeAdvancesBy(4)
            /\ SneAdvancesBy(4) /\ ~SneAdvancesBy(2) )

\* SE V1,5 has just skipped to an SNE V1,5: from here SE would skip again
\* and SNE falls through
C20_Witness ==
    /\ last.op = "se_vx_byte"
    /\ status = "running"
    /\ program_counter = last.pc + 4
    /\ fetch_in_bounds /\ get_opcode = 16645
    /\ SeAdvancesBy(4) /\ SneAdvancesBy(2)

====
